---- MODULE Spec2Model ----
(***************************************************************************)
(* A model of the cuckoo hash Map of leiless/cuckoohash-go (src/map.go,    *)
(* the revision whose Map stores each entry as one key||value byte run),   *)
(* built with debug = false as NewMap builds it.                           *)
(* The table is the record m; every method is a pure operator from the     *)
(* table (and its arguments) to the table afterwards and the results, and  *)
(* every public call is one action.                                        *)
(***************************************************************************)
EXTENDS Integers, Sequences, FiniteSets, TLC

VARIABLES m, last, pre, shadow

vars == <<m, last, pre, shadow>>

-----------------------------------------------------------------------------
(* Bounds of the model. *)

\* Valid keys are the one-byte keys <<0>> .. <<MaxKeyByte>>.
MaxKeyByte == 2
\* Values are byte strings of length 0 .. MaxValLen.
MaxValLen == 1
\* keysPerBucket given to newMap ranges over 1 .. MaxKeysPerBucket.
MaxKeysPerBucket == 2
\* bucketCount given to newMap ranges over 1 .. MaxBucketCount.
MaxBucketCount == 3
\* Calls are explored while zeroHash2Count stays within this cap.
MaxZeroHash2Count == 4
\* Number of PRNG bits a single Put may draw (one per put1 invocation).
MaxPut1Depth == 1

\* bytesPerKey given to newMap (the tests' one-byte keys).
BytesPerKey == 1

-----------------------------------------------------------------------------
(* Bytes, slices and 32-bit arithmetic. *)

\* A nil slot ([]byte(nil)) and a nil bucket ([][]byte(nil)): no elements.
Nil == <<>>

\* A []byte result: Go tells a nil slice from an empty one.
NilBytes == [nil |-> TRUE, b |-> <<>>]
Bytes(v) == [nil |-> FALSE, b |-> v]

Min(S) == CHOOSE x \in S : \A y \in S : x <= y

Pow2(n) == 2 ^ n

RECURSIVE BitAnd(_, _)
BitAnd(a, b) ==
    IF a = 0 \/ b = 0 THEN 0
    ELSE (a % 2) * (b % 2) + 2 * BitAnd(a \div 2, b \div 2)

RECURSIVE BitXor(_, _)
BitXor(a, b) ==
    IF a = 0 THEN b
    ELSE IF b = 0 THEN a
    ELSE ((a + b) % 2) + 2 * BitXor(a \div 2, b \div 2)

\* A uint64 is the pair of its 32-bit halves; every lo of the model is < 2^31.
U64(hi, lo) == [hi |-> hi, lo |-> lo]
Low32(x) == x.lo
IsZero64(x) == x.hi = 0 /\ x.lo = 0
\* x >> 8 on a uint64: the low byte of hi moves into the top byte of lo.
Shr8(x) == [hi |-> x.hi \div 256, lo |-> (x.lo \div 256) + (x.hi % 256) * Pow2(24)]

\* simpleHash: 0 for the empty slice, else h = 31*h + b from h = 1.  For the
\* key lengths of the model (at most 2 bytes) h stays below 2^32, so hi = 0.
RECURSIVE simpleHashFrom(_, _, _)
simpleHashFrom(a, i, h) ==
    IF i > Len(a) THEN h ELSE simpleHashFrom(a, i + 1, 31 * h + a[i])

simpleHash(a) == IF Len(a) = 0 THEN U64(0, 0) ELSE U64(0, simpleHashFrom(a, 1, 1))

byteSliceEquals(lhs, rhs) ==
    IF Len(lhs) = Len(rhs) THEN \A i \in 1..Len(lhs) : lhs[i] = rhs[i] ELSE FALSE

\* A uint32 is the pair of its 16-bit halves, an Int below 2^31 its value.
Half == Pow2(16)
U32(hi, lo) == [hi |-> hi, lo |-> lo]
U32Of(n) == U32(n \div Half, n % Half)
IntOf(x) == x.hi * Half + x.lo
IsZero32(x) == x.hi = 0 /\ x.lo = 0

BitOr(a, b) == a + b - BitAnd(a, b)

\* n-- and n++ on a uint32: both wrap.
Dec32(n) ==
    IF n.lo > 0 THEN U32(n.hi, n.lo - 1)
    ELSE IF n.hi > 0 THEN U32(n.hi - 1, Half - 1)
    ELSE U32(Half - 1, Half - 1)

Inc32(n) ==
    IF n.lo < Half - 1 THEN U32(n.hi, n.lo + 1)
    ELSE IF n.hi < Half - 1 THEN U32(n.hi + 1, 0)
    ELSE U32(0, 0)

\* n >> k for 1 <= k <= 16: the low k bits of hi move into the top of lo.
Shr32(n, k) ==
    U32(n.hi \div Pow2(k), (n.lo \div Pow2(k)) + (n.hi % Pow2(k)) * Pow2(16 - k))

Or32(a, b) == U32(BitOr(a.hi, b.hi), BitOr(a.lo, b.lo))

\* n |= n >> k
smear(n, k) == Or32(n, Shr32(n, k))

\* nextPowerOfTwo without the n-- before the smear.
nextPowerOfTwo32NoDec(n) ==
    Inc32(smear(smear(smear(smear(smear(n, 1), 2), 4), 8), 16))

\* If n is already a power of two the result is n; 0 and every n above 2^31
\* give 0 (the smear yields 0xffffffff and n++ wraps).
nextPowerOfTwo32(n) ==
    Inc32(smear(smear(smear(smear(smear(Dec32(n), 1), 2), 4), 8), 16))

\* nextPowerOfTwo without the rounding.
nextPowerOfTwoAsIs(n) == n

\* nextPowerOfTwo on the bucket counts of the tables of the model.
nextPowerOfTwo(n) == IntOf(nextPowerOfTwo32(U32Of(n)))

RECURSIVE trailingZerosFrom(_, _)
trailingZerosFrom(n, p) ==
    IF p = 32 \/ n % 2 = 1 THEN p ELSE trailingZerosFrom(n \div 2, p + 1)

TrailingZeros32(n) == trailingZerosFrom(n, 0)

-----------------------------------------------------------------------------
(* The caller's inputs. *)

KeyBytes == 0..MaxKeyByte
ValidKeys == {<<b>> : b \in KeyBytes}
\* The nil key and a two-byte key: lengths other than bytesPerKey.
BadKeys == {<<>>, <<0, 0>>}
Keys == ValidKeys \cup BadKeys

\* One value of each length, none sharing a byte with a key.
ValOfLen(n) == [i \in 1..n |-> 10 * n + i]
Values == {ValOfLen(n) : n \in 0..MaxValLen}

\* The two hash functions are the caller's; hid selects the pair supplied.
\*   pair 1: H1(k) = k[1] and H2(k) = k[1] + 1;
\*   pair 2: H1 has all keys collide (low word 0, high word 1) and H2 has a
\*           zero low word, which sends hash2Raw to its simpleHash fallback;
\*   pair 3: H1 has all keys collide and H2(k) = k[1] / 2 + 1, so that keys
\*           share their alternate bucket two by two;
\*   pair 4: H1 has all keys collide and H2(k) is 2 for even k[1], 1 for
\*           odd: with two buckets the even keys have one candidate bucket
\*           only and the odd keys two.
HasherIds == {1, 2, 3, 4}
KeyByte(key) == IF Len(key) = 0 THEN 0 ELSE key[1]
hasher1(hid, key) == IF hid = 1 THEN U64(0, KeyByte(key)) ELSE U64(1, 0)
hasher2(hid, key) ==
    IF hid = 1 THEN U64(0, KeyByte(key) + 1)
    ELSE IF hid = 2 THEN U64(1, 0)
    ELSE IF hid = 4 THEN U64(0, 2 - (KeyByte(key) % 2))
    ELSE U64(0, (KeyByte(key) \div 2) + 1)

-----------------------------------------------------------------------------
(* The Map. *)

EmptyBucket(n) == [j \in 0..(n - 1) |-> Nil]

\* initBuckets without the reset of the counts.
initBucketsKeepsCounts(t) ==
    [t EXCEPT !.buckets = [i \in 0..(t.bucketCount - 1) |-> EmptyBucket(t.keysPerBucket)]]

\* initBuckets: bucketCount buckets of keysPerBucket nil slots, counts reset.
initBuckets(t) ==
    [t EXCEPT !.buckets = [i \in 0..(t.bucketCount - 1) |-> EmptyBucket(t.keysPerBucket)],
              !.count = 0,
              !.valuesByteCount = 0]

\* newMap: the error, or the table.  debug is false (NewMap passes false).
\* bucketCount is the uint32 requested; a nil hasher is told by its flag.
newMapErr(bytesPerKey, keysPerBucket, bucketCount, hasher1Nil, hasher2Nil) ==
    IF bytesPerKey = 0 THEN "ErrInvalidArgument"
    ELSE IF keysPerBucket = 0 THEN "ErrInvalidArgument"
    ELSE IF IsZero32(nextPowerOfTwo32(bucketCount)) THEN "ErrInvalidArgument"
    ELSE IF hasher1Nil \/ hasher2Nil THEN "ErrInvalidArgument"
    ELSE "nil"

newMap(bytesPerKey, keysPerBucket, bucketCount, hid, expandable) ==
    initBuckets([buckets |-> <<>>,
                 count |-> 0,
                 bytesPerKey |-> bytesPerKey,
                 keysPerBucket |-> keysPerBucket,
                 bucketCount |-> nextPowerOfTwo(bucketCount),
                 bucketPower |-> TrailingZeros32(nextPowerOfTwo(bucketCount)),
                 expandable |-> expandable,
                 expansionCount |-> 0,
                 zeroHash2Count |-> 0,
                 valuesByteCount |-> 0,
                 hid |-> hid])

kvKey(t, kv) == SubSeq(kv, 1, t.bytesPerKey)
kvVal(t, kv) == SubSeq(kv, t.bytesPerKey + 1, Len(kv))

hash1Raw(t, key) == Low32(hasher1(t.hid, key))

hash1(t, key) == BitAnd(hash1Raw(t, key), Pow2(t.bucketPower) - 1)

\* hash2Raw: the XOR term is uint32(hasher2), else uint32(simpleHash), else
\* the first non-zero uint32(hh ^ hh2) as hh is shifted right by 8 while
\* hh != 0 (and zero if there is none).
RECURSIVE hash2Fallback(_, _)
hash2FirstNonZero(h, hh, hh2) ==
    IF h # 0 THEN h ELSE hash2Fallback(Shr8(hh), hh2)

hash2Fallback(hh, hh2) ==
    IF IsZero64(hh) THEN 0
    ELSE hash2FirstNonZero(BitXor(Low32(hh), Low32(hh2)), hh, hh2)

hash2Simple(hh, hh2) ==
    IF Low32(hh2) # 0 THEN Low32(hh2) ELSE hash2Fallback(hh, hh2)

hash2TermOf(key, hh) ==
    IF Low32(hh) # 0 THEN Low32(hh) ELSE hash2Simple(hh, simpleHash(key))

hash2Term(t, key) == hash2TermOf(key, hasher2(t.hid, key))

\* hash2Raw with a sum in place of the XOR.
hash2RawSum(t, key, h1) == h1 + hash2Term(t, key)

hash2Raw(t, key, h1) == BitXor(h1, hash2Term(t, key))

\* hash2Masked counting also on a table of one bucket.
hash2MaskedAlways(t, h1, h2) ==
    [h |-> h2,
     m |-> IF h2 = h1 THEN [t EXCEPT !.zeroHash2Count = @ + 1] ELSE t]

\* hash2: the masked alternate index h, and the table with zeroHash2Count
\* bumped when the index collapsed onto h1.
hash2Masked(t, h1, h2) ==
    [h |-> h2,
     m |-> IF h2 = h1 /\ t.bucketPower # 0
           THEN [t EXCEPT !.zeroHash2Count = @ + 1]
           ELSE t]

hash2(t, key, h1) ==
    hash2Masked(t, h1, BitAnd(hash2Raw(t, key, h1), Pow2(t.bucketPower) - 1))

\* slotsWithKey without the comparison of keys: every occupied slot.
slotsOccupied(t, b, key) ==
    {i \in 0..(t.keysPerBucket - 1) : t.buckets[b][i] # Nil}

\* The slots of bucket b that hold the key; the scan takes the first.
slotsWithKey(t, b, key) ==
    {i \in 0..(t.keysPerBucket - 1) :
        t.buckets[b][i] # Nil /\ byteSliceEquals(kvKey(t, t.buckets[b][i]), key)}

MinOr(S, d) == IF S = {} THEN d ELSE Min(S)

firstSlotWithKey(t, b, key) == MinOr(slotsWithKey(t, b, key), -1)

\* What kvIndexByKey hands its callback: (bucket, i) of the key, the bucket
\* given by its index b, or found = FALSE for (nil, 0); m is the table
\* afterwards.
KeyNotFound(t) == [found |-> FALSE, b |-> 0, i |-> 0, m |-> t]
KeyFound(t, b, i) == [found |-> TRUE, b |-> b, i |-> i, m |-> t]

kvIndexInH2(key, h1, hh) ==
    IF hh.h # h1 /\ firstSlotWithKey(hh.m, hh.h, key) >= 0
    THEN KeyFound(hh.m, hh.h, firstSlotWithKey(hh.m, hh.h, key))
    ELSE KeyNotFound(hh.m)

\* kvIndexInH1 without the scan of bucket h2.
kvIndexInH1Only(t, key, h1) ==
    IF firstSlotWithKey(t, h1, key) >= 0
    THEN KeyFound(t, h1, firstSlotWithKey(t, h1, key))
    ELSE KeyNotFound(t)

kvIndexInH1(t, key, h1) ==
    IF firstSlotWithKey(t, h1, key) >= 0
    THEN KeyFound(t, h1, firstSlotWithKey(t, h1, key))
    ELSE kvIndexInH2(key, h1, hash2(t, key, h1))

kvIndexByKey(t, key) ==
    IF Len(key) # t.bytesPerKey
    THEN KeyNotFound(t)
    ELSE kvIndexInH1(t, key, hash1(t, key))

containsKeyCallback(r) == [ok |-> r.found, m |-> r.m]

containsKey(t, key) == containsKeyCallback(kvIndexByKey(t, key))

\* Clear with debug = false: initBuckets.
\* containsValue comparing val with the whole entry, key included.
containsValueWholeEntry(t, val) ==
    \E b \in DOMAIN t.buckets :
        \E i \in DOMAIN t.buckets[b] :
            /\ t.buckets[b][i] # Nil
            /\ byteSliceEquals(t.buckets[b][i], val)

\* containsValue: forEachKV stops, with false, at the first entry whose
\* value equals val; a nil val has length 0.
containsValue(t, val) ==
    \E b \in DOMAIN t.buckets :
        \E i \in DOMAIN t.buckets[b] :
            /\ t.buckets[b][i] # Nil
            /\ byteSliceEquals(kvVal(t, t.buckets[b][i]), val)

Clear(t) == initBuckets(t)

\* Count: the counter (sanityCheck does nothing with debug = false).
Count(t) == t.count

\* IsEmpty: return m.Count() != 0.
IsEmpty(t) == Count(t) # 0

\* LoadFactor: the quotient float64(count) / float64(bucketCount*keysPerBucket)
\* as its numerator and denominator.
LoadFactor(t) == [num |-> t.count, den |-> t.bucketCount * t.keysPerBucket]

\* The callback of Get.  For a found key it returns b[m.bytesPerKey:], a slice
\* of the bucket b (a [][]byte), where the entry b[i] was meant: slicing a
\* bucket of keysPerBucket slots from bytesPerKey panics when bytesPerKey is
\* larger, and otherwise yields a value of dynamic type [][]byte.
GetCallback(r) ==
    IF r.found
    THEN IF r.m.bytesPerKey > r.m.keysPerBucket
         THEN [panic |-> TRUE, type |-> "none", v |-> NilBytes]
         ELSE [panic |-> FALSE, type |-> "[][]byte", v |-> NilBytes]
    ELSE [panic |-> FALSE, type |-> "[]byte", v |-> NilBytes]

\* GetAssert without the default: a nil result stays nil.
GetAssertNoDefault(r, c, defaultValue) ==
    IF c.panic \/ c.type # "[]byte"
    THEN [ret |-> NilBytes, err |-> "panic", m |-> r.m]
    ELSE [ret |-> c.v, err |-> "nil", m |-> r.m]

\* The rest of Get: the type assertion .([]byte) panics on a [][]byte; a nil
\* result is replaced by the default when one is passed.
GetAssert(r, c, defaultValue) ==
    IF c.panic \/ c.type # "[]byte"
    THEN [ret |-> NilBytes, err |-> "panic", m |-> r.m]
    ELSE [ret |-> IF c.v.nil /\ Len(defaultValue) # 0
                  THEN Bytes(defaultValue[1])
                  ELSE c.v,
          err |-> "nil",
          m |-> r.m]

GetIndexed(r, defaultValue) == GetAssert(r, GetCallback(r), defaultValue)

Get(t, key, defaultValue) == GetIndexed(kvIndexByKey(t, key), defaultValue)

\* put0Slot without the count of the new entry.
put0SlotNoCount(t, key, val, h, free) ==
    IF free = {}
    THEN [ok |-> FALSE, m |-> t]
    ELSE [ok |-> TRUE,
          m |-> [t EXCEPT !.buckets[h][Min(free)] = key \o val,
                          !.valuesByteCount = @ + Len(val)]]

\* put0Slot without the valuesByteCount accounting.
put0SlotNoByteCount(t, key, val, h, free) ==
    IF free = {}
    THEN [ok |-> FALSE, m |-> t]
    ELSE [ok |-> TRUE,
          m |-> [t EXCEPT !.buckets[h][Min(free)] = key \o val,
                          !.count = @ + 1]]

\* put0Slot writing into the last nil slot of the bucket, not the first.
put0SlotLast(t, key, val, h, free) ==
    IF free = {}
    THEN [ok |-> FALSE, m |-> t]
    ELSE [ok |-> TRUE,
          m |-> [t EXCEPT !.buckets[h][CHOOSE i \in free : \A j \in free : j <= i] =
                              key \o val,
                          !.count = @ + 1,
                          !.valuesByteCount = @ + Len(val)]]

\* put0: write key||val into the first nil slot of bucket h, if there is one.
\* free is the set of nil slots of the bucket.
put0Slot(t, key, val, h, free) ==
    IF free = {}
    THEN [ok |-> FALSE, m |-> t]
    ELSE [ok |-> TRUE,
          m |-> [t EXCEPT !.buckets[h][Min(free)] = key \o val,
                          !.count = @ + 1,
                          !.valuesByteCount = @ + Len(val)]]

put0(t, key, val, h) ==
    put0Slot(t, key, val, h, {i \in DOMAIN t.buckets[h] : t.buckets[h][i] = Nil})

\* The loop of rehashOrExpand from slot i on, kv being the entry in hand:
\* swap kv into slot i (kickSwap), then try the displaced entry old in its
\* alternate bucket hash2(k, h) (kickPlace), and go on with old if that
\* bucket is full (kickNext).
RECURSIVE kickOut(_, _, _, _)
kickNext(h, old, i, t, p) ==
    IF p.ok
    THEN [settled |-> TRUE, m |-> p.m, kv |-> old]
    ELSE kickOut(t, h, old, i + 1)

\* kickPlace into the bucket after the alternate one.
kickPlaceNextBucket(h, old, i, hh) ==
    kickNext(h, old, i, hh.m,
             put0(hh.m, kvKey(hh.m, old), kvVal(hh.m, old),
                  (hh.h + 1) % hh.m.bucketCount))

kickPlace(h, old, i, hh) ==
    kickNext(h, old, i, hh.m, put0(hh.m, kvKey(hh.m, old), kvVal(hh.m, old), hh.h))

\* kickSwap without the valuesByteCount accounting.
kickSwapNoByteCount(t, h, kv, i) == [t EXCEPT !.buckets[h][i] = kv]

kickSwap(t, h, kv, i) ==
    [t EXCEPT !.buckets[h][i] = kv,
              !.valuesByteCount =
                  (@ - Len(kvVal(t, t.buckets[h][i]))) + Len(kvVal(t, kv))]

kickOut(t, h, kv, i) ==
    IF i >= t.keysPerBucket
    THEN [settled |-> FALSE, m |-> t, kv |-> kv]
    ELSE kickPlace(h, t.buckets[h][i], i,
                   hash2(kickSwap(t, h, kv, i), kvKey(t, t.buckets[h][i]), h))

\* The loop of expandBucket from (i, j) on.  buckets is the new array, made
\* by make([][][]byte, bucketCount<<1): its buckets are nil, so the write
\* buckets[h][j] = kv is out of range and panics.
expandRaw(t, k, i, h1Raw) ==
    IF BitAnd(h1Raw, Pow2(t.bucketPower) - 1) = i
    THEN h1Raw
    ELSE hash2Raw(t, k, h1Raw)

expandIndex(t, k, i) ==
    BitAnd(expandRaw(t, k, i, hash1Raw(t, k)), 2 * Pow2(t.bucketPower) - 1)

RECURSIVE expandLoop(_, _, _, _)
expandMove(t, buckets, i, j, kv, h) ==
    IF j \notin DOMAIN buckets[h]
    THEN [panic |-> TRUE, buckets |-> buckets]
    ELSE expandLoop(t, [buckets EXCEPT ![h][j] = kv], i, j + 1)

expandLoop(t, buckets, i, j) ==
    IF i >= t.bucketCount THEN [panic |-> FALSE, buckets |-> buckets]
    ELSE IF j >= t.keysPerBucket THEN expandLoop(t, buckets, i + 1, 0)
    ELSE IF t.buckets[i][j] = Nil THEN expandLoop(t, buckets, i, j + 1)
    ELSE expandMove(t, buckets, i, j, t.buckets[i][j],
                    expandIndex(t, kvKey(t, t.buckets[i][j]), i))

expandSwitch(t, e) ==
    IF e.panic
    THEN [panic |-> TRUE, m |-> t]
    ELSE [panic |-> FALSE,
          m |-> [t EXCEPT !.buckets = e.buckets,
                          !.bucketCount = 2 * @,
                          !.bucketPower = @ + 1,
                          !.expansionCount = (@ + 1) % 256]]

\* make([][][]byte, m.bucketCount<<1): twice the buckets, each a nil bucket.
newBuckets(t) == [b \in 0..(2 * t.bucketCount - 1) |-> Nil]

expandBucket(t) == expandSwitch(t, expandLoop(t, newBuckets(t), 0, 0))

RECURSIVE put1(_, _, _, _)

\* rehashRestore without the restore: the new entry stays in slot 0.
rehashNoRestore(t, h, kv) == [m |-> t, err |-> "ErrBucketIsFull"]

\* rehashOrExpand after its loop (k): done if an entry settled; else, not
\* expandable, the entry in hand goes back to slot 0 and the call fails;
\* else expandBucket and put1(key, val), whose error is dropped.
rehashRestore(t, h, kv) ==
    [m |-> [t EXCEPT !.buckets[h][0] = kv,
                     !.valuesByteCount =
                         (@ - Len(kvVal(t, t.buckets[h][0]))) + Len(kvVal(t, kv))],
     err |-> "ErrBucketIsFull"]

rehashReput(p) ==
    [m |-> p.m, err |-> IF p.err \in {"panic", "depth"} THEN p.err ELSE "nil"]

rehashExpanded(key, val, rs, e) ==
    IF e.panic
    THEN [m |-> e.m, err |-> "panic"]
    ELSE rehashReput(put1(e.m, key, val, rs))

rehashKicked(t, key, val, h, rs, k) ==
    IF k.settled THEN [m |-> k.m, err |-> "nil"]
    ELSE IF ~t.expandable THEN rehashRestore(k.m, h, k.kv)
    ELSE rehashExpanded(key, val, rs, expandBucket(k.m))

\* rs are the PRNG bits left for the put1 after an expansion.
rehashOrExpand(t, key, val, h, rs) ==
    rehashKicked(t, key, val, h, rs, kickOut(t, h, key \o val, 0))

\* put1: bucket h1, then bucket h2 if it differs, then rehashOrExpand on the
\* bucket the bit m.r.Uint64()&1 selects (0: h2, 1: h1).  Head(rs) is that
\* bit; "depth" marks a call that would draw more than MaxPut1Depth bits.
put1Kick(key, val, rs, h1, hh, p2) ==
    IF hh.h # h1 /\ p2.ok THEN [m |-> p2.m, err |-> "nil"]
    ELSE IF rs = <<>> THEN [m |-> hh.m, err |-> "depth"]
    ELSE rehashOrExpand(hh.m, key, val, IF Head(rs) = 0 THEN hh.h ELSE h1, Tail(rs))

put1InH2(key, val, rs, h1, hh) ==
    put1Kick(key, val, rs, h1, hh, put0(hh.m, key, val, hh.h))

put1InH1(t, key, val, rs, h1, p1) ==
    IF p1.ok
    THEN [m |-> p1.m, err |-> "nil"]
    ELSE put1InH2(key, val, rs, h1, hash2(t, key, h1))

put1Hashed(t, key, val, rs, h1) ==
    put1InH1(t, key, val, rs, h1, put0(t, key, val, h1))

\* put1 without the error for a key of another length.
put1AnyLength(t, key, val, rs) ==
    IF Len(key) # t.bytesPerKey
    THEN [m |-> t, err |-> "nil"]
    ELSE put1Hashed(t, key, val, rs, hash1(t, key))

put1(t, key, val, rs) ==
    IF Len(key) # t.bytesPerKey
    THEN [m |-> t, err |-> "ErrInvalidArgument"]
    ELSE put1Hashed(t, key, val, rs, hash1(t, key))

\* updateCallback counting the overwritten entry as a new one.
updateCallbackCounts(key, val, r) ==
    IF ~r.found
    THEN [oldVal |-> NilBytes, updated |-> FALSE, m |-> r.m]
    ELSE [oldVal |-> Bytes(kvVal(r.m, r.m.buckets[r.b][r.i])),
          updated |-> TRUE,
          m |-> [r.m EXCEPT !.buckets[r.b][r.i] = key \o val,
                            !.count = @ + 1,
                            !.valuesByteCount =
                                (@ - Len(kvVal(r.m, r.m.buckets[r.b][r.i]))) + Len(val)]]

\* updateCallback without the valuesByteCount accounting.
updateCallbackNoByteCount(key, val, r) ==
    IF ~r.found
    THEN [oldVal |-> NilBytes, updated |-> FALSE, m |-> r.m]
    ELSE [oldVal |-> Bytes(kvVal(r.m, r.m.buckets[r.b][r.i])),
          updated |-> TRUE,
          m |-> [r.m EXCEPT !.buckets[r.b][r.i] = key \o val]]

\* update: overwrite the value of a present key in place.
updateCallback(key, val, r) ==
    IF ~r.found
    THEN [oldVal |-> NilBytes, updated |-> FALSE, m |-> r.m]
    ELSE [oldVal |-> Bytes(kvVal(r.m, r.m.buckets[r.b][r.i])),
          updated |-> TRUE,
          m |-> [r.m EXCEPT !.buckets[r.b][r.i] = key \o val,
                            !.valuesByteCount =
                                (@ - Len(kvVal(r.m, r.m.buckets[r.b][r.i]))) + Len(val)]]

update(t, key, val) == updateCallback(key, val, kvIndexByKey(t, key))

\* Put: the value before the Put, the error, and the table afterwards.
PutNew(p) == [ret |-> NilBytes, err |-> p.err, m |-> p.m]

PutUpdated(key, val, rs, u) ==
    IF u.updated
    THEN [ret |-> u.oldVal, err |-> "nil", m |-> u.m]
    ELSE PutNew(put1(u.m, key, val, rs))

\* PutIfAbsent without the early return for a present key: it overwrites.
PutIfAbsentOverwrites(key, val, rs, r) ==
    PutUpdated(key, val, rs, updateCallback(key, val, r))

PutIfAbsent(key, val, rs, r) ==
    IF r.found
    THEN [ret |-> Bytes(kvVal(r.m, r.m.buckets[r.b][r.i])), err |-> "nil", m |-> r.m]
    ELSE PutNew(put1(r.m, key, val, rs))

Put(t, key, val, ifAbsent, rs) ==
    IF ifAbsent
    THEN PutIfAbsent(key, val, rs, kvIndexByKey(t, key))
    ELSE PutUpdated(key, val, rs, update(t, key, val))

\* Del is not among the sources; it follows the specification's "Delete"
\* (locate via lookup; KEY_NOT_FOUND if absent; else mark the slot absent,
\* decrement count, subtract len(value), return the removed value).  For a
\* key of another length the specification gives both INVALID_ARGUMENT (its
\* error kinds) and, through the lookup, KEY_NOT_FOUND: badLen is the one
\* reported.
DelCallback(r) ==
    IF ~r.found
    THEN [ret |-> NilBytes, err |-> "ErrKeyNotFound", m |-> r.m]
    ELSE [ret |-> Bytes(kvVal(r.m, r.m.buckets[r.b][r.i])),
          err |-> "nil",
          m |-> [r.m EXCEPT !.buckets[r.b][r.i] = Nil,
                            !.count = @ - 1,
                            !.valuesByteCount =
                                @ - Len(kvVal(r.m, r.m.buckets[r.b][r.i]))]]

Del(t, key, badLen) ==
    IF Len(key) # t.bytesPerKey
    THEN [ret |-> NilBytes, err |-> badLen, m |-> t]
    ELSE DelCallback(kvIndexByKey(t, key))

-----------------------------------------------------------------------------
(* The Set facade (src/set.go): a Set embeds a Map and puts nil values.  *)

\* Set.Put: ifAbsent is false unless the caller passes it.
SetPut(t, key, ifAbsent, rs) == Put(t, key, <<>>, ifAbsent, rs)
\* Set.Del returns Map.Del's error.
SetDel(t, key, badLen) == Del(t, key, badLen)
SetContains(t, key) == containsKey(t, key)
SetCount(t) == Count(t)
SetIsEmpty(t) == SetCount(t) = 0
SetClear(t) == Clear(t)

-----------------------------------------------------------------------------
(* The state machine: one action per public call.                          *)
(*   m       the Map;                                                      *)
(*   last    the call that has just run, its arguments and what it         *)
(*           returned, until the caller takes the results (Return); found  *)
(*           tells whether the lookup located the key before the call,     *)
(*           known whether the caller had stored and not removed it;       *)
(*   pre     the Map as it was before that call;                           *)
(*   shadow  the key-value pairs the caller has stored and not removed.    *)

NoCall ==
    [op |-> "newMap", key |-> <<>>, val |-> <<>>, ifAbsent |-> FALSE,
     rs |-> <<>>, defaultValue |-> <<>>, found |-> FALSE, known |-> FALSE,
     ret |-> NilBytes, ok |-> FALSE, n |-> 0, lf |-> [num |-> 0, den |-> 1],
     err |-> "nil"]

Configs ==
    {c \in [keysPerBucket : 1..MaxKeysPerBucket,
            bucketCount : 1..MaxBucketCount,
            hid : HasherIds,
            expandable : BOOLEAN] :
        newMapErr(BytesPerKey, c.keysPerBucket, U32Of(c.bucketCount), FALSE, FALSE) = "nil"}

Init ==
    /\ \E c \in Configs :
           m = newMap(BytesPerKey, c.keysPerBucket, c.bucketCount, c.hid, c.expandable)
    /\ last = NoCall
    /\ pre = m
    /\ shadow = <<>>

\* The caller makes a call when no results are pending; a panic ends the
\* program.  Calls are explored within the zeroHash2Count cap.
Idle == last = NoCall
Within(t) == t.zeroHash2Count <= MaxZeroHash2Count

Present(t, key) == kvIndexByKey(t, key).found

Store(sh, key, val) == [k \in (DOMAIN sh) \cup {key} |-> IF k = key THEN val ELSE sh[k]]
Remove(sh, key) == [k \in (DOMAIN sh) \ {key} |-> sh[k]]

\* The default passed to Get, if any (the tests' dummyVal).
dummyVal == <<90, 91>>

\* The step of a call that returned r: the table, the record of the call.
Called(r, call) ==
    /\ Within(r.m)
    /\ m' = r.m
    /\ pre' = m
    /\ last' = call

PutCalled(key, val, ifAbsent, rs, found, r) ==
    /\ r.err # "depth"
    /\ Called(r, [NoCall EXCEPT !.op = "Put", !.key = key, !.val = val,
                                !.ifAbsent = ifAbsent, !.rs = rs, !.found = found,
                                !.ret = r.ret, !.err = r.err])
    /\ shadow' = IF r.err = "nil" /\ ~(ifAbsent /\ found)
                 THEN Store(shadow, key, val)
                 ELSE shadow

CallPut ==
    /\ Idle
    /\ \E key \in Keys, val \in Values, ifAbsent \in BOOLEAN,
          rs \in [1..MaxPut1Depth -> {0, 1}] :
         PutCalled(key, val, ifAbsent, rs, Present(m, key),
                   Put(m, key, val, ifAbsent, rs))

DelCalled(key, found, r) ==
    /\ Called(r, [NoCall EXCEPT !.op = "Del", !.key = key, !.found = found,
                                !.known = key \in DOMAIN shadow,
                                !.ret = r.ret, !.err = r.err])
    /\ shadow' = IF r.err = "nil" THEN Remove(shadow, key) ELSE shadow

CallDel ==
    /\ Idle
    /\ \E key \in Keys, badLen \in {"ErrInvalidArgument", "ErrKeyNotFound"} :
         DelCalled(key, Present(m, key), Del(m, key, badLen))

GetCalled(key, defaultValue, found, r) ==
    /\ Called(r, [NoCall EXCEPT !.op = "Get", !.key = key,
                                !.defaultValue = defaultValue, !.found = found,
                                !.ret = r.ret, !.err = r.err])
    /\ UNCHANGED shadow

CallGet ==
    /\ Idle
    /\ \E key \in Keys, defaultValue \in {<<>>, <<dummyVal>>} :
         GetCalled(key, defaultValue, Present(m, key), Get(m, key, defaultValue))

ContainsKeyCalled(key, found, r) ==
    /\ Called(r, [NoCall EXCEPT !.op = "ContainsKey", !.key = key,
                                !.found = found, !.ok = r.ok])
    /\ UNCHANGED shadow

CallContainsKey ==
    /\ Idle
    /\ \E key \in Keys :
         ContainsKeyCalled(key, Present(m, key), containsKey(m, key))

CallContainsValue ==
    /\ Idle
    /\ \E val \in Values :
         last' = [NoCall EXCEPT !.op = "ContainsValue", !.val = val,
                                !.ok = containsValue(m, val)]
    /\ pre' = m
    /\ UNCHANGED <<m, shadow>>

CallClear ==
    /\ Idle
    /\ m' = Clear(m)
    /\ pre' = m
    /\ last' = [NoCall EXCEPT !.op = "Clear"]
    /\ shadow' = <<>>

\* Count, IsEmpty and LoadFactor read the table.
CallCount ==
    /\ Idle
    /\ last' = [NoCall EXCEPT !.op = "Count", !.n = Count(m)]
    /\ pre' = m
    /\ UNCHANGED <<m, shadow>>

CallIsEmpty ==
    /\ Idle
    /\ last' = [NoCall EXCEPT !.op = "IsEmpty", !.ok = IsEmpty(m)]
    /\ pre' = m
    /\ UNCHANGED <<m, shadow>>

CallLoadFactor ==
    /\ Idle
    /\ last' = [NoCall EXCEPT !.op = "LoadFactor", !.lf = LoadFactor(m)]
    /\ pre' = m
    /\ UNCHANGED <<m, shadow>>

\* The call returns to the caller, unless it panicked.
Return ==
    /\ ~Idle
    /\ last.err # "panic"
    /\ last' = NoCall
    /\ pre' = m
    /\ UNCHANGED <<m, shadow>>

Next ==
    \/ CallPut
    \/ CallDel
    \/ CallGet
    \/ CallContainsKey
    \/ CallContainsValue
    \/ CallClear
    \/ CallCount
    \/ CallIsEmpty
    \/ CallLoadFactor
    \/ Return

Spec == Init /\ [][Next]_vars

-----------------------------------------------------------------------------
(* Construction on its own: the arguments a caller may pass to NewMap, the  *)
(* invalid ones included, and the call.  pre holds the arguments, m the map *)
(* returned.                                                                *)

\* The nil *Map returned with an error.
NoMap == [nil |-> TRUE]

\* Bucket counts asked for: 0, the small ones, and two above 2^31
\* (2^31 + 1 and 0xffffffff).
TooLarge == {U32(Half \div 2, 1), U32(Half - 1, Half - 1)}
Requested == {U32Of(n) : n \in 0..(2 * MaxBucketCount)} \cup TooLarge

NewMapArgs ==
    [bytesPerKey : 0..BytesPerKey,
     keysPerBucket : 0..MaxKeysPerBucket,
     bucketCount : Requested,
     hasher1Nil : BOOLEAN,
     hasher2Nil : BOOLEAN,
     hid : HasherIds,
     expandable : BOOLEAN]

NewMapErrOf(a) ==
    newMapErr(a.bytesPerKey, a.keysPerBucket, a.bucketCount, a.hasher1Nil, a.hasher2Nil)

NewMapOf(a) ==
    newMap(a.bytesPerKey, a.keysPerBucket, IntOf(a.bucketCount), a.hid, a.expandable)

InitNewMap ==
    /\ pre \in NewMapArgs
    /\ m = NoMap
    /\ last = [NoCall EXCEPT !.op = "args"]
    /\ shadow = <<>>

CallNewMap ==
    /\ last.op = "args"
    /\ last' = [NoCall EXCEPT !.op = "NewMap", !.err = NewMapErrOf(pre)]
    /\ m' = IF NewMapErrOf(pre) = "nil" THEN NewMapOf(pre) ELSE NoMap
    /\ UNCHANGED <<pre, shadow>>

NextNewMap == CallNewMap

SpecNewMap == InitNewMap /\ [][NextNewMap]_vars

-----------------------------------------------------------------------------
(* Capacity on its own: tables of any size that NewMap accepts, held as the *)
(* fields the capacity computations read; the bucketCount*keysPerBucket nil *)
(* slots that initBuckets allocates are not built.  pre holds the           *)
(* arguments, m the fields of the map returned.                             *)

\* a * b on uint32, by 16-bit halves; b is a power of two, so the products
\* of halves stay below 2^31.
Mul32(a, b) ==
    U32((a.hi * b.lo + a.lo * b.hi + (a.lo * b.lo) \div Half) % Half,
        (a.lo * b.lo) % Half)

\* m.bucketCount*m.keysPerBucket, a uint32 product.
capacity32(t) == Mul32(t.keysPerBucket, t.bucketCount)

\* keysPerBucket asked for: 0, the small ones, 2^16, 2^17, 2^31, 0xffffffff.
LargeKeysPerBucket ==
    {U32Of(n) : n \in 0..(MaxKeysPerBucket + 1)}
        \cup {U32(1, 0), U32(2, 0), U32(Half \div 2, 0), U32(Half - 1, Half - 1)}

\* Bucket counts asked for: 0, the small ones, 2^15, 2^16, 2^31, 2^31 + 1.
LargeBucketCount ==
    {U32Of(n) : n \in 0..MaxBucketCount}
        \cup {U32(0, Half \div 2), U32(1, 0), U32(Half \div 2, 0), U32(Half \div 2, 1)}

CapacityArgs ==
    [keysPerBucket : LargeKeysPerBucket,
     bucketCount : LargeBucketCount,
     expandable : BOOLEAN]

\* newMap compares keysPerBucket with 0 only.
CapacityErrOf(a) ==
    newMapErr(BytesPerKey, IF IsZero32(a.keysPerBucket) THEN 0 ELSE 1,
              a.bucketCount, FALSE, FALSE)

\* The fields newMap sets that the capacity computations read.
CapacityMapOf(a) ==
    [bytesPerKey |-> BytesPerKey,
     keysPerBucket |-> a.keysPerBucket,
     bucketCount |-> nextPowerOfTwo32(a.bucketCount),
     expandable |-> a.expandable,
     count |-> 0,
     valuesByteCount |-> 0]

InitCapacity ==
    /\ pre \in CapacityArgs
    /\ m = NoMap
    /\ last = [NoCall EXCEPT !.op = "args"]
    /\ shadow = <<>>

CallNewMapLarge ==
    /\ last.op = "args"
    /\ last' = [NoCall EXCEPT !.op = "NewMap", !.err = CapacityErrOf(pre)]
    /\ m' = IF CapacityErrOf(pre) = "nil" THEN CapacityMapOf(pre) ELSE NoMap
    /\ UNCHANGED <<pre, shadow>>

\* LoadFactor on the new table: float64(count) over the uint32 product.
CallLoadFactorLarge ==
    /\ last.op = "NewMap"
    /\ m # NoMap
    /\ last' = [NoCall EXCEPT !.op = "LoadFactor",
                              !.lf = [num |-> m.count, den |-> capacity32(m)]]
    /\ UNCHANGED <<m, pre, shadow>>

\* MemoryInBytes on the new table: count and valuesByteCount are 0, the sum
\* is the uint32 product widened to uint64.
CallMemoryInBytesLarge ==
    /\ last.op = "NewMap"
    /\ m # NoMap
    /\ last' = [NoCall EXCEPT !.op = "MemoryInBytes", !.n = capacity32(m)]
    /\ UNCHANGED <<m, pre, shadow>>

NextCapacity ==
    \/ CallNewMapLarge
    \/ CallLoadFactorLarge
    \/ CallMemoryInBytesLarge

SpecCapacity == InitCapacity /\ [][NextCapacity]_vars

-----------------------------------------------------------------------------
(* What the properties below speak of. *)

ValidKey(t, key) == Len(key) = t.bytesPerKey

\* The occupied slots of the table, the entries in them, and the number of
\* slots that hold the entry kv.
SlotsOf(t) ==
    {s \in (DOMAIN t.buckets) \X (0..(t.keysPerBucket - 1)) :
        t.buckets[s[1]][s[2]] # Nil}

EntriesOf(t) == {t.buckets[s[1]][s[2]] : s \in SlotsOf(t)}

Copies(t, kv) == Cardinality({s \in SlotsOf(t) : t.buckets[s[1]][s[2]] = kv})

\* The value the lookup locates for the key, nil if it locates none.
Lookup(t, key) ==
    LET r == kvIndexByKey(t, key)
    IN IF r.found THEN Bytes(kvVal(r.m, r.m.buckets[r.b][r.i])) ELSE NilBytes

\* The slot the lookup locates for the key.
SlotOfKey(t, key) ==
    LET r == kvIndexByKey(t, key) IN <<r.b, r.i>>

\* The table apart from its informational counter zeroHash2Count.
Observable(t) == [t EXCEPT !.zeroHash2Count = 0]

\* The last call was a Put that ran into a full bucket h1, a full or equal
\* bucket h2, and a kick-out loop that settled no entry.
PutStalled ==
    /\ last.op = "Put"
    /\ ValidKey(pre, last.key)
    /\ ~last.found
    /\ LET h1 == hash1(pre, last.key)
           hh == hash2(pre, last.key, h1)
           h == IF Head(last.rs) = 0 THEN hh.h ELSE h1
       IN /\ ~put0(pre, last.key, last.val, h1).ok
          /\ (hh.h = h1 \/ ~put0(hh.m, last.key, last.val, hh.h).ok)
          /\ ~kickOut(hh.m, h, last.key \o last.val, 0).settled

-----------------------------------------------------------------------------
(* The properties. *)

\* C1: on an expandable table, after any sequence of Put, Del and Clear, a
\* key whose most recent successful Put was not followed by a Del of it or by
\* a Clear is retrievable: Get returns the value last stored for it and
\* ContainsKey is true.
C1_Retrievable ==
    (m.expandable /\ last.key \in DOMAIN shadow) =>
        /\ last.op = "Get" =>
               (last.err = "nil" /\ last.ret = Bytes(shadow[last.key]))
        /\ last.op = "ContainsKey" => last.ok

\* C2: when a Put of an absent key on an expandable table stalls in kick-out
\* and expands, the Put returns and the entries of the table are then those
\* before the Put plus the new entry once: for every entry, as many copies
\* as before, and one more of the new one.
C2_ExpansionKeepsEntries ==
    (PutStalled /\ pre.expandable) =>
        /\ last.err = "nil"
        /\ \A kv \in EntriesOf(pre) \cup EntriesOf(m) \cup {last.key \o last.val} :
               Copies(m, kv) =
                   Copies(pre, kv) + (IF kv = last.key \o last.val THEN 1 ELSE 0)

\* C3: after a Put(k, v) that returned no error, k absent before or ifAbsent
\* false, Get(k) returns v and ContainsKey(k) is true; and a Put that
\* inserted an absent key returned no previous value.
C3_RoundTrip ==
    (/\ last.op = "Put"
     /\ last.err = "nil"
     /\ ValidKey(pre, last.key)
     /\ (~last.found \/ ~last.ifAbsent)) =>
        /\ Get(m, last.key, <<>>).err = "nil"
        /\ Get(m, last.key, <<>>).ret = Bytes(last.val)
        /\ containsKey(m, last.key).ok
        /\ ~last.found => last.ret = NilBytes

\* C4: a Put with ifAbsent on a present key returns the value stored by the
\* earlier Put, with no error, and changes nothing in the table; and after a
\* Put with ifAbsent that inserted an absent key, count is one more than
\* before, and a second Put with ifAbsent of any value returns the first
\* value, with no error, and leaves the table, count included, as it is.
C4_IdempotentIfAbsent ==
    (last.op = "Put" /\ last.ifAbsent /\ last.key \in DOMAIN shadow) =>
        /\ last.found =>
               /\ last.err = "nil"
               /\ last.ret = Bytes(shadow[last.key])
               /\ m = pre
        /\ (~last.found /\ last.err = "nil") =>
               /\ m.count = pre.count + 1
               /\ \A v2 \in Values, rs \in [1..MaxPut1Depth -> {0, 1}] :
                      LET second == Put(m, last.key, v2, TRUE, rs)
                      IN /\ second.err = "nil"
                         /\ second.ret = Bytes(last.val)
                         /\ second.m = m
                         /\ second.m.count = pre.count + 1

\* A second Put with ifAbsent, of another value, has returned the first.
C4_Witness ==
    /\ last.op = "Put" /\ last.ifAbsent /\ last.found
    /\ last.key \in DOMAIN shadow
    /\ last.val # shadow[last.key]
    /\ last.ret = Bytes(shadow[last.key])

\* C5: a Put without ifAbsent on a key present with value v1 returns v1 with
\* no error, writes key||v2 into the slot that held the key and no other,
\* leaves count as it is, and changes valuesByteCount by len(v2) - len(v1).
C5_Overwrite ==
    (last.op = "Put" /\ ~last.ifAbsent /\ last.found) =>
        LET s == SlotOfKey(pre, last.key)
            v1 == kvVal(pre, pre.buckets[s[1]][s[2]])
        IN /\ last.err = "nil"
           /\ last.ret = Bytes(v1)
           /\ last.key \in DOMAIN shadow /\ shadow[last.key] = last.val
           /\ m = [pre EXCEPT !.buckets[s[1]][s[2]] = last.key \o last.val,
                              !.valuesByteCount = @ + Len(last.val) - Len(v1)]
           /\ m.count = pre.count
           /\ m.valuesByteCount - pre.valuesByteCount = Len(last.val) - Len(v1)

\* A value was overwritten by one of another length, next to other entries.
C5_Witness ==
    /\ last.op = "Put" /\ ~last.ifAbsent /\ last.found /\ last.err = "nil"
    /\ ~last.ret.nil /\ Len(last.ret.b) # Len(last.val)
    /\ m.count > 1
    /\ m.valuesByteCount # pre.valuesByteCount

\* C6: Del of a present key returns the stored value with no error, makes
\* its slot absent, takes 1 from count and len(value) from valuesByteCount;
\* and after a Put that inserted an absent key, Del of the key returns the
\* value and leaves Get absent, ContainsKey false, and count and
\* valuesByteCount as they were before the Put.
C6_DeleteInverse ==
    /\ (last.op = "Del" /\ last.found) =>
           LET s == SlotOfKey(pre, last.key)
               v == kvVal(pre, pre.buckets[s[1]][s[2]])
           IN /\ last.err = "nil"
              /\ last.ret = Bytes(v)
              /\ m.buckets = [pre.buckets EXCEPT ![s[1]][s[2]] = Nil]
              /\ m.count = pre.count - 1
              /\ m.valuesByteCount = pre.valuesByteCount - Len(v)
    /\ (last.op = "Put" /\ ~last.found /\ last.err = "nil") =>
           LET d == Del(m, last.key, "ErrInvalidArgument")
           IN /\ d.err = "nil"
              /\ d.ret = Bytes(last.val)
              /\ Get(d.m, last.key, <<>>).err = "nil"
              /\ Get(d.m, last.key, <<>>).ret = NilBytes
              /\ ~containsKey(d.m, last.key).ok
              /\ d.m.count = pre.count
              /\ d.m.valuesByteCount = pre.valuesByteCount

\* A Del has removed a key with a non-empty value from among other entries.
C6_Witness ==
    /\ last.op = "Del" /\ last.found /\ last.err = "nil"
    /\ ~last.ret.nil /\ Len(last.ret.b) > 0
    /\ m.count > 0
    /\ m.count = pre.count - 1

\* C7: Del of a key of the table's key length that is not present (never
\* put, or deleted or cleared since) fails with ErrKeyNotFound, returns no
\* value, and leaves the table as it was.
C7_DelAbsent ==
    (last.op = "Del" /\ ValidKey(pre, last.key) /\ ~last.known) =>
        /\ last.err = "ErrKeyNotFound"
        /\ last.ret = NilBytes
        /\ Observable(m) = Observable(pre)

\* A Del of an absent key has failed on a table that holds other keys.
C7_Witness ==
    /\ last.op = "Del" /\ ValidKey(pre, last.key)
    /\ ~last.known
    /\ last.err = "ErrKeyNotFound"
    /\ pre.count > 0

C9_ExpandablePutSucceeds ==
    (last.op = "Put" /\ pre.expandable /\ ValidKey(pre, last.key)) =>
        last.err = "nil"

\* C10: a Put with a key of another length than bytesPerKey fails with
\* ErrInvalidArgument, with ifAbsent and without, returns no value, and
\* leaves the table as it was.
C10_PutBadKeyLength ==
    (last.op = "Put" /\ ~ValidKey(pre, last.key)) =>
        /\ last.err = "ErrInvalidArgument"
        /\ last.ret = NilBytes
        /\ m = pre

\* A Put with a key that is too long has failed on a table that holds keys.
C10_Witness ==
    /\ last.op = "Put" /\ Len(last.key) > pre.bytesPerKey
    /\ last.err = "ErrInvalidArgument"
    /\ pre.count > 0

\* C12: for a key of another length than bytesPerKey, the nil key included,
\* Get returns nil, or the default if one is passed, and does not panic,
\* ContainsKey returns false, and neither changes the table, whatever the
\* table holds.
C12_LookupBadKeyLength ==
    ~ValidKey(pre, last.key) =>
        /\ last.op = "Get" =>
               /\ last.err = "nil"
               /\ last.ret = (IF last.defaultValue = <<>>
                              THEN NilBytes
                              ELSE Bytes(last.defaultValue[1]))
               /\ m = pre
        /\ last.op = "ContainsKey" => (~last.ok /\ m = pre)

\* Get of the nil key with a default has returned the default on a table
\* that holds keys.
C12_Witness ==
    /\ last.op = "Get" /\ last.key = <<>>
    /\ last.defaultValue # <<>>
    /\ last.ret = Bytes(dummyVal)
    /\ pre.count > 0

\* C13: Get of a key of the table's key length returns the default (nil if
\* none is passed) exactly when the key is absent; for a present key, one
\* stored with an empty value included, it returns the stored value, which
\* is not nil, with or without a default.
C13_EmptyValueIsPresent ==
    (last.op = "Get" /\ ValidKey(pre, last.key)) =>
        /\ last.err = "nil"
        /\ last.key \in DOMAIN shadow =>
               (~last.ret.nil /\ last.ret.b = shadow[last.key])
        /\ last.key \notin DOMAIN shadow =>
               last.ret = (IF last.defaultValue = <<>>
                           THEN NilBytes
                           ELSE Bytes(last.defaultValue[1]))

\* C14: IsEmpty returns true exactly when count is 0: on a new table, after
\* Clear and after the last key is deleted, and false while an entry is
\* present.
C14_IsEmptyIffCountZero ==
    last.op = "IsEmpty" => (last.ok <=> (pre.count = 0))

\* C15: between calls, and when a call has returned, Count() is the number
\* of slots that are not nil, the number of entries forEachKV yields; and
\* that is what a call of Count returns.
C15_CountIsEntries ==
    /\ last.err # "panic" => Count(m) = Cardinality(SlotsOf(m))
    /\ last.op = "Count" => last.n = Cardinality(SlotsOf(pre))

\* Count has returned 2 or more on a table with a free slot left.
C15_Witness ==
    /\ last.op = "Count"
    /\ last.n > 1
    /\ last.n < m.bucketCount * m.keysPerBucket
    /\ last.n = Cardinality(SlotsOf(m))

\* The sum of the value lengths of the entries in the slots S, as assertCount
\* adds them up over forEachKV.
RECURSIVE SumValueLen(_, _)
SumValueLen(t, S) ==
    IF S = {} THEN 0
    ELSE LET s == CHOOSE x \in S : TRUE
         IN Len(kvVal(t, t.buckets[s[1]][s[2]])) + SumValueLen(t, S \ {s})

ValueBytes(t) == SumValueLen(t, SlotsOf(t))

\* A Put has inserted its key by moving an entry to its other bucket.
PutKicked ==
    /\ last.op = "Put" /\ last.err = "nil" /\ ~last.found
    /\ \E k \in ValidKeys :
           /\ Present(pre, k) /\ Present(m, k)
           /\ SlotOfKey(pre, k)[1] # SlotOfKey(m, k)[1]

\* C16: between calls, and when a call has returned, valuesByteCount is the
\* sum of the value lengths of the present entries: after inserts, updates,
\* kick-out swaps that settled or were rolled back, deletions and Clear.
C16_ValuesByteCountIsSum ==
    last.err # "panic" => m.valuesByteCount = ValueBytes(m)

\* A kick-out has moved an entry for a Put whose value has another length
\* than that of the entry moved.
C16_Witness ==
    /\ PutKicked
    /\ m.valuesByteCount = ValueBytes(m)
    /\ m.valuesByteCount > 0
    /\ m.valuesByteCount # pre.valuesByteCount
    /\ \E k \in ValidKeys :
           /\ Present(pre, k)
           /\ SlotOfKey(pre, k)[1] # SlotOfKey(m, k)[1]
           /\ Lookup(m, k) # Bytes(last.val)

\* The entry in slot s lies in bucket hash1(k) or hash2(k, hash1(k)) of its
\* key k, as assertPosition checks.
InPlace(t, s) ==
    LET k == kvKey(t, t.buckets[s[1]][s[2]])
        h1 == hash1(t, k)
    IN s[1] = h1 \/ s[1] = hash2(t, k, h1).h

\* C17: between calls, and when a call has returned, every present entry
\* lies in bucket hash1(k) or hash2(k, hash1(k)) of its key k under the
\* current mask: after inserts, kick-out relocations and the rollback of a
\* Put that failed with ErrBucketIsFull.
C17_Placement ==
    last.err # "panic" => \A s \in SlotsOf(m) : InPlace(m, s)

\* A kick-out has moved an entry from its bucket hash1 to its other bucket.
C17_Witness ==
    /\ PutKicked
    /\ \E k \in ValidKeys :
           /\ Present(pre, k)
           /\ SlotOfKey(pre, k)[1] = hash1(pre, k)
           /\ SlotOfKey(m, k)[1] # hash1(m, k)
           /\ SlotOfKey(m, k)[1] = hash2(m, k, hash1(m, k)).h
    /\ \A s \in SlotsOf(m) : InPlace(m, s)

\* C18: in every reachable state no two slots, of one bucket or of two, hold
\* the same key: a key occupies at most one slot of the table.
C18_NoKeyTwice ==
    \A s1, s2 \in SlotsOf(m) :
        kvKey(m, m.buckets[s1[1]][s1[2]]) = kvKey(m, m.buckets[s2[1]][s2[2]])
            => s1 = s2

\* A Put has found its key in the key's alternate bucket, next to other
\* entries, and has overwritten its value there.
C18_Witness ==
    /\ last.op = "Put" /\ last.found /\ ~last.ifAbsent /\ last.err = "nil"
    /\ SlotOfKey(pre, last.key)[1] # hash1(pre, last.key)
    /\ SlotOfKey(m, last.key) = SlotOfKey(pre, last.key)
    /\ m.count > 1
    /\ Copies(m, last.key \o last.val) = 1

\* C19: in every reachable state bucketCount is a power of two, equal to
\* 1 << bucketPower and to the length of the bucket array.
C19_BucketCountPowerOfTwo ==
    /\ m.bucketPower \in 0..31
    /\ m.bucketCount = Pow2(m.bucketPower)
    /\ DOMAIN m.buckets = 0..(m.bucketCount - 1)
    /\ Cardinality(DOMAIN m.buckets) = m.bucketCount

\* A table of 4 buckets (3 were asked for) has been cleared of its entries.
C19_Witness ==
    /\ last.op = "Clear"
    /\ pre.count > 0
    /\ m.bucketCount = 4 /\ m.bucketPower = 2
    /\ Cardinality(DOMAIN m.buckets) = 4

C21_ClearEmpties ==
    last.op = "Clear" =>
        /\ DOMAIN m.buckets = 0..(pre.bucketCount - 1)
        /\ \A i \in DOMAIN m.buckets :
               /\ DOMAIN m.buckets[i] = 0..(pre.keysPerBucket - 1)
               /\ \A j \in DOMAIN m.buckets[i] : m.buckets[i][j] = Nil
        /\ m.count = 0
        /\ m.valuesByteCount = 0
        /\ [m EXCEPT !.buckets = pre.buckets, !.count = pre.count,
                     !.valuesByteCount = pre.valuesByteCount] = pre
        /\ \A key \in Keys :
               /\ ~containsKey(m, key).ok
               /\ Lookup(m, key) = NilBytes
        /\ \A key \in ValidKeys, val \in Values, ifAbsent \in BOOLEAN,
              rs \in [1..MaxPut1Depth -> {0, 1}] :
               LET r == Put(m, key, val, ifAbsent, rs)
               IN /\ r.err = "nil"
                  /\ r.m.count = 1
                  /\ Lookup(r.m, key) = Bytes(val)

\* A Clear of a table that held entries with values.
C21_Witness ==
    /\ last.op = "Clear"
    /\ pre.count > 1
    /\ pre.valuesByteCount > 0
    /\ \E key \in ValidKeys : Present(pre, key)

\* uint32 order and powers of two, on the halves.
Lt32(a, b) == a.hi < b.hi \/ (a.hi = b.hi /\ a.lo < b.lo)
IsPowerOfTwo32(x) ==
    \/ x.hi = 0 /\ \E p \in 0..15 : x.lo = Pow2(p)
    \/ x.lo = 0 /\ \E p \in 0..15 : x.hi = Pow2(p)
\* p is the least power of two >= n.
LeastPowerOfTwoFrom(p, n) ==
    /\ IsPowerOfTwo32(p)
    /\ ~Lt32(p, n)
    /\ Lt32(Shr32(p, 1), n)
\* 2^31, the largest bucket count of a 32-bit index.
TwoTo31 == U32(Half \div 2, 0)
\* Bucket counts at the edges of the 16-bit halves and of the 32-bit range.
Edges32 ==
    {U32(0, Half - 1), U32(1, 0), U32(1, 1), U32(Half \div 4, 0),
     U32(Half \div 4, 1), U32(Half \div 2 - 1, Half - 1), TwoTo31,
     U32(Half \div 2, 1), U32(Half \div 2 + 1, 0), U32(Half - 1, 0),
     U32(Half - 1, Half - 1)}

\* C22: construction fails with ErrInvalidArgument and returns no table when
\* bytesPerKey = 0, keysPerBucket = 0, a hash function is nil, or the bucket
\* count asked for is 0 or above 2^31 (its rounding does not fit 32 bits);
\* otherwise it returns an empty table whose bucketCount is the least power
\* of two at or above the count asked for.
C22_Construction ==
    /\ \A n \in Requested \cup Edges32 :
           IF IsZero32(n) \/ Lt32(TwoTo31, n)
           THEN IsZero32(nextPowerOfTwo32(n))
           ELSE LeastPowerOfTwoFrom(nextPowerOfTwo32(n), n)
    /\ last.op = "NewMap" =>
           IF \/ pre.bytesPerKey = 0
              \/ pre.keysPerBucket = 0
              \/ pre.hasher1Nil
              \/ pre.hasher2Nil
              \/ IsZero32(pre.bucketCount)
              \/ Lt32(TwoTo31, pre.bucketCount)
           THEN last.err = "ErrInvalidArgument" /\ m = NoMap
           ELSE /\ last.err = "nil"
                /\ LeastPowerOfTwoFrom(U32Of(m.bucketCount), pre.bucketCount)
                /\ IsPowerOfTwo32(pre.bucketCount) =>
                       m.bucketCount = IntOf(pre.bucketCount)
                /\ DOMAIN m.buckets = 0..(m.bucketCount - 1)
                /\ m.count = 0
                /\ SlotsOf(m) = {}
                /\ m.bytesPerKey = pre.bytesPerKey
                /\ m.keysPerBucket = pre.keysPerBucket
                /\ m.expandable = pre.expandable

\* A construction refused only for its bucket count, 0xffffffff.
C22_Witness ==
    /\ last.op = "NewMap"
    /\ last.err = "ErrInvalidArgument"
    /\ pre.bytesPerKey > 0
    /\ pre.keysPerBucket > 0
    /\ ~pre.hasher1Nil
    /\ ~pre.hasher2Nil
    /\ pre.bucketCount = U32(Half - 1, Half - 1)

\* The pair of hash functions passed is one function passed twice.
SameHasher(hid) == \A key \in Keys : hasher1(hid, key) = hasher2(hid, key)

\* C23: construction with the same function as hasher1 and as hasher2 fails
\* with ErrInvalidArgument and returns no table.
C23_RejectsSameHasher ==
    (last.op = "NewMap" /\ SameHasher(pre.hid)) =>
        (last.err = "ErrInvalidArgument" /\ m = NoMap)

\* C24: on a table that is not expandable and has one bucket, a Put of an
\* absent valid-length key returns nil exactly when count < keysPerBucket
\* before it and ErrBucketIsFull exactly when count = keysPerBucket; after
\* a Del has freed a slot, a Put of any absent key succeeds.
C24_SingleBucketCapacity ==
    (~pre.expandable /\ pre.bucketCount = 1) =>
        /\ (last.op = "Put" /\ ValidKey(pre, last.key) /\ ~last.found) =>
               /\ last.err = "nil" <=> pre.count < pre.keysPerBucket
               /\ last.err = "ErrBucketIsFull" <=> pre.count = pre.keysPerBucket
               /\ last.err = "nil" => Present(m, last.key)
        /\ (last.op = "Del" /\ last.err = "nil") =>
               \A key \in ValidKeys, val \in Values, ifAbsent \in BOOLEAN,
                  rs \in [1..MaxPut1Depth -> {0, 1}] :
                   ~Present(m, key) =>
                       LET r == Put(m, key, val, ifAbsent, rs)
                       IN r.err = "nil" /\ Present(r.m, key)

\* A Del on a full single-bucket table that is not expandable: the Put of
\* an absent key, refused before it, succeeds after it.
C24_Witness ==
    /\ ~pre.expandable
    /\ pre.bucketCount = 1
    /\ last.op = "Del"
    /\ last.err = "nil"
    /\ pre.count = pre.keysPerBucket
    /\ \E key \in ValidKeys, val \in Values, rs \in [1..MaxPut1Depth -> {0, 1}] :
           /\ ~Present(pre, key)
           /\ Put(pre, key, val, FALSE, rs).err = "ErrBucketIsFull"
           /\ Put(m, key, val, FALSE, rs).err = "nil"

\* A table as a Set leaves it: every entry has the empty value.
SetLike(t) == \A kv \in EntriesOf(t) : kvVal(t, kv) = <<>>

\* C25 (Put): Set.Put(key) does what Map.Put(key, empty, ifAbsent = true)
\* does; on a present key it reports success and leaves Count as it was.
C25_SetPut ==
    SetLike(m) =>
        \A key \in Keys, rs \in [1..MaxPut1Depth -> {0, 1}] :
            LET s == SetPut(m, key, FALSE, rs)
                p == Put(m, key, <<>>, TRUE, rs)
            IN /\ s.err = p.err
               /\ s.m = p.m
               /\ Present(m, key) => (s.err = "nil" /\ Count(s.m) = Count(m))

\* C25 (Del): Set.Del(key) succeeds exactly when the key was present and
\* reports ErrKeyNotFound otherwise.
C25_SetDel ==
    SetLike(m) =>
        \A key \in ValidKeys, badLen \in {"ErrInvalidArgument", "ErrKeyNotFound"} :
            SetDel(m, key, badLen).err =
                IF Present(m, key) THEN "nil" ELSE "ErrKeyNotFound"

\* C25: the Set is the Map restricted to empty values: Set.Put(key) is
\* Map.Put(key, empty, ifAbsent = true), Set.Del(key) succeeds exactly when
\* the key was present, and Contains, Count, IsEmpty and Clear give what the
\* Map's ContainsKey, Count, IsEmpty and Clear give.
C25_SetIsMapOfEmptyValues ==
    SetLike(m) =>
        /\ C25_SetPut
        /\ C25_SetDel
        /\ \A key \in Keys : SetContains(m, key) = containsKey(m, key)
        /\ SetCount(m) = Count(m)
        /\ SetClear(m) = Clear(m)
        /\ SetIsEmpty(m) = IsEmpty(m)

\* C26 (no call shrinks the table): bucketCount, bucketPower and
\* expansionCount after a call are at least what they were before it, and
\* change only together, by a doubling for each expansion counted.
C26_NeverShrinks ==
    /\ m.expansionCount >= pre.expansionCount
    /\ m.bucketCount = pre.bucketCount * Pow2(m.expansionCount - pre.expansionCount)
    /\ m.bucketPower = pre.bucketPower + (m.expansionCount - pre.expansionCount)
    /\ m.bucketCount = Pow2(m.bucketPower)

\* C26: expansionCount counts doublings: a Put that expands (it stalls in
\* kick-out on an expandable table) leaves bucketCount doubled, bucketPower
\* and expansionCount one higher, once for each expansion it makes; no call
\* lowers bucketCount or expansionCount.
C26_ExpansionCountsDoublings ==
    /\ C26_NeverShrinks
    /\ (PutStalled /\ pre.expandable) =>
           /\ m.expansionCount > pre.expansionCount
           /\ m.bucketCount > pre.bucketCount

\* C27: on an expandable table whose every slot is occupied, a Put of an
\* absent valid-length key expands at least once before it returns:
\* expansionCount is larger afterwards, the Put returns nil and the key is
\* retrievable with the value put.
C27_FullTablePutExpands ==
    (/\ last.op = "Put"
     /\ pre.expandable
     /\ ValidKey(pre, last.key)
     /\ ~last.found
     /\ pre.count = pre.bucketCount * pre.keysPerBucket) =>
        /\ last.err = "nil"
        /\ m.expansionCount > pre.expansionCount
        /\ Lookup(m, last.key) = Bytes(last.val)

\* The alternate index of h for the key under the mask of bucketPower p.
AltIndex(p, key, h) == hash2([m EXCEPT !.bucketPower = p], key, h).h

\* C28: the alternate index is its own inverse: for every key, for the
\* bucketPower of the table (between calls) and the next one, and for every
\* masked index h, hash2(k, hash2(k, h)) = h; so the other candidate bucket
\* of an entry is hash2 of its key and the bucket it is in, whichever hash
\* put it there.
C28_Hash2Involution ==
    /\ Idle => \A p \in {m.bucketPower, m.bucketPower + 1}, key \in Keys :
           \A h \in 0..(Pow2(p) - 1) :
               LET h2 == AltIndex(p, key, h)
               IN h2 \in 0..(Pow2(p) - 1) /\ AltIndex(p, key, h2) = h
    /\ \A s \in SlotsOf(m) :
           LET k == kvKey(m, m.buckets[s[1]][s[2]])
           IN {s[1], AltIndex(m.bucketPower, k, s[1])} =
                  {hash1(m, k), AltIndex(m.bucketPower, k, hash1(m, k))}

\* An entry that sits in its alternate bucket, another bucket than its
\* primary one, on a table of four buckets.
C28_Witness ==
    /\ m.bucketPower = 2
    /\ \E s \in SlotsOf(m) :
           LET k == kvKey(m, m.buckets[s[1]][s[2]])
           IN /\ hash1(m, k) # s[1]
              /\ AltIndex(2, k, s[1]) = hash1(m, k)
              /\ hash2Term(m, k) > 3

\* The table a stalled Put hands to expandBucket: the one its kick-out loop
\* left.
StalledTable ==
    LET h1 == hash1(pre, last.key)
        hh == hash2(pre, last.key, h1)
        h == IF Head(last.rs) = 0 THEN hh.h ELSE h1
    IN kickOut(hh.m, h, last.key \o last.val, 0).m

\* Where expandBucket sends the entry of slot s of t: the bucket index is
\* the unmasked primary hash under the new mask if the entry is in its
\* primary bucket, the unmasked alternate hash under it otherwise.
NewBucketOf(t, s) == expandIndex(t, kvKey(t, t.buckets[s[1]][s[2]]), s[1])

\* C29 (destinations): for every entry of a table, in bucket i, the bucket
\* expandBucket computes for it is i or i + bucketCount, and when the entry
\* is not in its primary bucket its unmasked alternate hash masks to i (the
\* assertions of expandBucket); so no two entries get the same new slot.
C29_Destinations ==
    \A s \in SlotsOf(m) :
        LET k == kvKey(m, m.buckets[s[1]][s[2]])
        IN /\ NewBucketOf(m, s) \in {s[1], s[1] + m.bucketCount}
           /\ hash1(m, k) # s[1] =>
                  BitAnd(hash2Raw(m, k, hash1Raw(m, k)), Pow2(m.bucketPower) - 1) = s[1]
           /\ \A s2 \in SlotsOf(m) :
                  (NewBucketOf(m, s2) = NewBucketOf(m, s) /\ s2[2] = s[2]) => s2 = s

\* expandBucket(t) returns with every entry of t relocated: the entry of
\* bucket i, slot j is in bucket NewBucketOf, slot j of the new array, and
\* the new array holds nothing else.
Relocated(t, e) ==
    /\ ~e.panic
    /\ \A s \in SlotsOf(t) :
           e.m.buckets[NewBucketOf(t, s)][s[2]] = t.buckets[s[1]][s[2]]
    /\ Cardinality(SlotsOf(e.m)) = Cardinality(SlotsOf(t))

\* C29: when a Put expands the table, expandBucket relocates each entry of
\* bucket i, slot j of the old array to slot j of bucket i or
\* i + bucketCount of the new one, as the unmasked primary hash (entry in
\* its primary bucket) or the unmasked alternate hash tells; no two entries
\* land in the same slot and the assertions of expandBucket hold.
C29_ExpansionRelocates ==
    (PutStalled /\ pre.expandable) =>
        /\ Relocated(StalledTable, expandBucket(StalledTable))
        /\ \A s \in SlotsOf(StalledTable) :
               NewBucketOf(StalledTable, s) \in {s[1], s[1] + StalledTable.bucketCount}

\* Every bucket of the array has keysPerBucket slots, 0 .. keysPerBucket-1.
FullWidth(t, buckets) ==
    \A b \in DOMAIN buckets : DOMAIN buckets[b] = 0..(t.keysPerBucket - 1)

\* C30 (the table): every bucket of the table has keysPerBucket slots.
C30_TableBuckets == FullWidth(m, m.buckets)

\* C30: every bucket has exactly keysPerBucket slots in every reachable
\* state, the buckets of the new array that expansion builds included, so a
\* write at slot j < keysPerBucket of any bucket is in range.
C30_BucketWidth ==
    /\ FullWidth(m, m.buckets)
    /\ (PutStalled /\ pre.expandable) =>
           /\ FullWidth(StalledTable, newBuckets(StalledTable))
           /\ ~expandBucket(StalledTable).panic

\* The nil slots of bucket b, and the table with key||val in slot i of it.
FreeSlots(t, b) == {i \in DOMAIN t.buckets[b] : t.buckets[b][i] = Nil}
WithEntry(t, b, i, key, val) == [t.buckets EXCEPT ![b][i] = key \o val]

\* C31: a new key goes to the lowest nil slot of bucket h1 whenever h1 has
\* one; only with h1 full, and h2 another bucket, to the lowest nil slot of
\* bucket h2; kick-out starts only with both candidate buckets full, in the
\* bucket the PRNG bit selects (0: h2, 1: h1), where the new entry is
\* swapped into slot 0.
C31_InsertionOrder ==
    (last.op = "Put" /\ ValidKey(pre, last.key) /\ ~last.found) =>
        LET h1 == hash1(pre, last.key)
            h2 == hash2(pre, last.key, h1).h
            h == IF Head(last.rs) = 0 THEN h2 ELSE h1
        IN IF FreeSlots(pre, h1) # {}
           THEN /\ last.err = "nil"
                /\ m.buckets = WithEntry(pre, h1, Min(FreeSlots(pre, h1)),
                                         last.key, last.val)
           ELSE IF h2 # h1 /\ FreeSlots(pre, h2) # {}
           THEN /\ last.err = "nil"
                /\ m.buckets = WithEntry(pre, h2, Min(FreeSlots(pre, h2)),
                                         last.key, last.val)
           ELSE /\ last.err \in {"nil", "ErrBucketIsFull", "panic"}
                /\ last.err # "ErrBucketIsFull" =>
                       m.buckets[h][0] = last.key \o last.val
                /\ last.err = "ErrBucketIsFull" =>
                       \A b \in DOMAIN pre.buckets \ {h} : m.buckets[b] = pre.buckets[b]

\* A Put that found both its candidate buckets, two different ones, full,
\* and whose kick-out, in the bucket h1 selected by bit 1, settled.
C31_Witness ==
    /\ last.op = "Put"
    /\ ValidKey(pre, last.key)
    /\ ~last.found
    /\ last.err = "nil"
    /\ Head(last.rs) = 1
    /\ FreeSlots(pre, hash1(pre, last.key)) = {}
    /\ hash2(pre, last.key, hash1(pre, last.key)).h # hash1(pre, last.key)
    /\ FreeSlots(pre, hash2(pre, last.key, hash1(pre, last.key)).h) = {}
    /\ m.buckets[hash1(pre, last.key)][0] = last.key \o last.val

\* A Put of an absent valid-length key that found no nil slot in its
\* candidate buckets, and KickBucket, the bucket its PRNG bit selected.
PutKickedOut ==
    /\ last.op = "Put"
    /\ ValidKey(pre, last.key)
    /\ ~last.found
    /\ FreeSlots(pre, hash1(pre, last.key)) = {}
    /\ FreeSlots(pre, hash2(pre, last.key, hash1(pre, last.key)).h) = {}

KickBucket ==
    IF Head(last.rs) = 0
    THEN hash2(pre, last.key, hash1(pre, last.key)).h
    ELSE hash1(pre, last.key)

\* The alternate bucket of the entry in slot j of bucket h before the Put.
AltOfSlot(h, j) == hash2(pre, kvKey(pre, pre.buckets[h][j]), h).h

\* The Put settled with its swap at slot i of bucket h: the entries of
\* slots 0..i-1 had no room in their alternate buckets, the one of slot i
\* had; the new entry is in slot 0, the entries of slots 0..i-1 one slot
\* further, the entry of slot i in the lowest nil slot of its alternate
\* bucket, and nothing else has changed.
SettledAt(h, i) ==
    /\ \A j \in 0..(i - 1) : AltOfSlot(h, j) = h \/ FreeSlots(pre, AltOfSlot(h, j)) = {}
    /\ AltOfSlot(h, i) # h
    /\ FreeSlots(pre, AltOfSlot(h, i)) # {}
    /\ m.buckets[h] =
           [j \in DOMAIN pre.buckets[h] |->
               IF j = 0 THEN last.key \o last.val
               ELSE IF j <= i THEN pre.buckets[h][j - 1]
               ELSE pre.buckets[h][j]]
    /\ m.buckets[AltOfSlot(h, i)] =
           [pre.buckets[AltOfSlot(h, i)]
               EXCEPT ![Min(FreeSlots(pre, AltOfSlot(h, i)))] = pre.buckets[h][i]]
    /\ \A b \in DOMAIN pre.buckets \ {h, AltOfSlot(h, i)} : m.buckets[b] = pre.buckets[b]

\* C32: a Put that succeeds through kick-out without expansion makes at
\* most keysPerBucket swaps, all in the chosen bucket h, stops at the first
\* displaced entry whose alternate bucket has a nil slot, and changes only
\* bucket h and that alternate bucket: exactly one entry present before is
\* in another bucket after, every other bucket is as it was.
C32_KickOutFrame ==
    (PutKickedOut /\ last.err = "nil") =>
        /\ m.expansionCount = pre.expansionCount
        /\ DOMAIN m.buckets = DOMAIN pre.buckets
        /\ \E i \in 0..(pre.keysPerBucket - 1) : SettledAt(KickBucket, i)
        /\ Cardinality({k \in ValidKeys :
                           /\ Present(pre, k)
                           /\ SlotOfKey(pre, k)[1] # SlotOfKey(m, k)[1]}) = 1

\* A kick-out that settled at its second swap.
C32_Witness ==
    /\ PutKickedOut
    /\ last.err = "nil"
    /\ pre.keysPerBucket = 2
    /\ SettledAt(KickBucket, 1)

\* C33: after a Put has failed with ErrBucketIsFull the bucket h chosen for
\* kick-out holds the entries it held before rotated by one slot (the
\* entry of the last slot in slot 0, the entry of slot i in slot i + 1)
\* and every other bucket is as it was.
C33_BucketFullRotates ==
    (last.op = "Put" /\ last.err = "ErrBucketIsFull") =>
        /\ PutKickedOut
        /\ m.buckets[KickBucket] =
               [j \in DOMAIN pre.buckets[KickBucket] |->
                   IF j = 0
                   THEN pre.buckets[KickBucket][pre.keysPerBucket - 1]
                   ELSE pre.buckets[KickBucket][j - 1]]
        /\ \A b \in DOMAIN pre.buckets \ {KickBucket} : m.buckets[b] = pre.buckets[b]
        /\ DOMAIN m.buckets = DOMAIN pre.buckets

\* A failed Put that left the two entries of its kick-out bucket exchanged.
C33_Witness ==
    /\ last.op = "Put"
    /\ last.err = "ErrBucketIsFull"
    /\ pre.keysPerBucket = 2
    /\ m.buckets[KickBucket] # pre.buckets[KickBucket]
    /\ m.buckets[KickBucket][1] = pre.buckets[KickBucket][0]
    /\ m.buckets[KickBucket][0] = pre.buckets[KickBucket][1]

LookupCalled == last.op \in {"Get", "ContainsKey", "ContainsValue"}

\* The lookup of the last call computed an alternate index equal to h1: the
\* key has the table's key length, bucket h1 does not hold it, and hash2
\* gives h1 back.
LookupCollapsed ==
    /\ last.op \in {"Get", "ContainsKey"}
    /\ ValidKey(pre, last.key)
    /\ slotsWithKey(pre, hash1(pre, last.key), last.key) = {}
    /\ hash2(pre, last.key, hash1(pre, last.key)).h = hash1(pre, last.key)

\* C35 (as claimed): Get, ContainsKey and ContainsValue leave the table as
\* it was: buckets and slot order, count, valuesByteCount, bucketCount,
\* bucketPower, expansionCount and zeroHash2Count.
C35_LookupsChangeNothing == LookupCalled => m = pre

\* C35: Get, ContainsKey and ContainsValue leave buckets and slot order,
\* count, valuesByteCount, bucketCount, bucketPower and expansionCount as
\* they were; zeroHash2Count is as it was too, except that it is one higher
\* when the lookup computed an alternate index equal to h1 on a table of
\* more than one bucket.
C35_LookupsReadOnly ==
    LookupCalled =>
        /\ Observable(m) = Observable(pre)
        /\ m.zeroHash2Count =
               IF LookupCollapsed /\ pre.bucketPower # 0
               THEN pre.zeroHash2Count + 1
               ELSE pre.zeroHash2Count

\* A ContainsKey that raised zeroHash2Count.
C35_Witness ==
    /\ last.op = "ContainsKey"
    /\ LookupCollapsed
    /\ pre.bucketPower # 0
    /\ m.zeroHash2Count = pre.zeroHash2Count + 1
    /\ pre.count > 0

\* C36: ContainsValue(v) is true exactly when some present entry has a
\* value byte-equal to v, a nil v being equal to a stored value of length
\* 0: false on an empty table, and true exactly when v is the value of a
\* key put and neither deleted nor overwritten since.
C36_ContainsValue ==
    last.op = "ContainsValue" =>
        /\ last.ok <=> \E s \in SlotsOf(pre) :
                           kvVal(pre, pre.buckets[s[1]][s[2]]) = last.val
        /\ last.ok <=> \E k \in DOMAIN shadow : shadow[k] = last.val
        /\ pre.count = 0 => ~last.ok
        /\ m = pre

\* ContainsValue(nil) is true on a table holding an entry with the empty
\* value and an entry with another value.
C36_Witness ==
    /\ last.op = "ContainsValue"
    /\ last.val = <<>>
    /\ last.ok
    /\ \E k \in DOMAIN shadow : shadow[k] # <<>>

\* C37: every slot is absent initially; a slot goes from present to absent
\* only through Del or Clear; a Put never lowers the number of present
\* entries, a Del lowers count by exactly 1 (a Del that fails leaves it),
\* Clear sets it to 0.  The call a step makes is last'.op.
C37_SlotTransitions ==
    /\ (\A b \in DOMAIN m.buckets : \A i \in DOMAIN m.buckets[b] : m.buckets[b][i] = Nil)
    /\ m.count = 0
    /\ [][
         /\ \A s \in SlotsOf(m) :
                (s[1] \in DOMAIN m'.buckets /\ m'.buckets[s[1]][s[2]] = Nil) =>
                    last'.op \in {"Del", "Clear"}
         /\ last'.op = "Put" =>
                /\ m'.count >= m.count
                /\ Cardinality(SlotsOf(m')) >= Cardinality(SlotsOf(m))
         /\ last'.op = "Del" =>
                /\ m'.count = IF last'.err = "nil" THEN m.count - 1 ELSE m.count
                /\ Cardinality(SlotsOf(m')) =
                       IF last'.err = "nil"
                       THEN Cardinality(SlotsOf(m)) - 1
                       ELSE Cardinality(SlotsOf(m))
         /\ last'.op = "Clear" => (m'.count = 0 /\ SlotsOf(m') = {})
         /\ last'.op \notin {"Put", "Del", "Clear"} => m'.buckets = m.buckets
      ]_vars

\* A Del has made one slot absent and lowered count by one.
C37_Witness ==
    /\ last.op = "Del"
    /\ last.err = "nil"
    /\ m.count = pre.count - 1
    /\ Cardinality(SlotsOf(pre) \ SlotsOf(m)) = 1
    /\ m.count > 0

\* C38: for every configuration that construction accepts, the capacity
\* bucketCount * keysPerBucket that LoadFactor and MemoryInBytes compute in
\* uint32 is the true product: it is not 0, and divided by bucketCount (a
\* power of two, so a shift) it gives keysPerBucket back.
C38_CapacityExact ==
    last.op \in {"LoadFactor", "MemoryInBytes"} =>
        LET c == IF last.op = "LoadFactor" THEN last.lf.den ELSE last.n
            p == CHOOSE q \in 0..31 :
                     m.bucketCount = IF q < 16 THEN U32(0, Pow2(q))
                                     ELSE U32(Pow2(q - 16), 0)
            ShrBy(n, k) == IF k = 0 THEN n
                           ELSE IF k <= 16 THEN Shr32(n, k)
                           ELSE Shr32(Shr32(n, 16), k - 16)
        IN  /\ ~IsZero32(c)
            /\ ShrBy(c, p) = m.keysPerBucket

====
